---- MODULE Spec2Model ----
(***************************************************************************)
(* Model of the server-side async I/O core (server/async.c).               *)
(*                                                                         *)
(* The server is single-threaded: every entry point runs to completion,    *)
(* so each entry point is one action.  The functions of async.c are        *)
(* operators that map a world (asyncs, fd queues, process list, APCs in    *)
(* flight) to the world after the call, so that synchronous re-entry       *)
(* (async_terminate -> thread_queue_apc -> async_set_result) is part of    *)
(* the action that triggers it.  A world also carries the log of the       *)
(* calls made to collaborators (APCs, completions, events, wake-ups,       *)
(* reselects) in program order; the log is an output of a call and is not  *)
(* part of the state.                                                      *)
(***************************************************************************)
EXTENDS Integers, Sequences, FiniteSets, TLC

VARIABLES
    asyncs,        \* [Asyncs -> struct async], st = "free" before allocation
    queues,        \* [Fds -> Seq(Asyncs)]: the async_queue of each fd (queue->queue)
    queue_live,    \* [Fds -> BOOLEAN]: FALSE once free_async_queue ran on the fd's queue
    fd_completion, \* [Fds -> BOOLEAN]: fd has a completion port bound (fd_get_completion)
    process_asyncs,\* Seq(Asyncs): process->asyncs, head first
    apcs,          \* Seq of APC_ASYNC_IO calls queued to client threads, each owning a reference
    thread_alive,  \* [Threads -> BOOLEAN]: thread can still receive APCs
    crashed        \* TRUE once the server aborted: failed assert, null fd dereferenced, destroyed async touched

vars == <<asyncs, queues, queue_live, fd_completion, process_asyncs, apcs, thread_alive, crashed>>

\* ---------------------------------------------------------------- bounds
MaxAsync == 2
MaxFd == 2
MaxThread == 2
MaxCookie == 2
MaxLive == 1
MaxIosbHolders == 1

Asyncs == 1..MaxAsync
Fds == 1..MaxFd
Threads == 1..MaxThread
Cookies == 1..MaxCookie

\* ---------------------------------------------------------------- statuses
STATUS_SUCCESS == "SUCCESS"
STATUS_PENDING == "PENDING"
STATUS_ALERTED == "ALERTED"
STATUS_CANCELLED == "CANCELLED"
STATUS_HANDLES_CLOSED == "HANDLES_CLOSED"
STATUS_TIMEOUT == "IO_TIMEOUT"

\* statuses callers and clients pass in
Statuses == {STATUS_SUCCESS, STATUS_PENDING, STATUS_ALERTED, STATUS_CANCELLED}

\* the two top bits of the status code: SUCCESS 0x00000000, PENDING 0x00000103
\* and ALERTED 0x00000101 have severity 0, HANDLES_CLOSED 0x8000000A is a
\* warning (2), CANCELLED 0xC0000120 and IO_TIMEOUT 0xC00000B5 are errors (3)
severity(s) ==
    CASE s \in {STATUS_SUCCESS, STATUS_PENDING, STATUS_ALERTED} -> 0
      [] s = STATUS_HANDLES_CLOSED -> 2
      [] s \in {STATUS_CANCELLED, STATUS_TIMEOUT} -> 3

\* NT_ERROR(): (status >> 30) == 3
NT_ERROR(s) == severity(s) = 3

\* fd attribute: fd 1 is opened for overlapped I/O, the others are synchronous
is_fd_overlapped(f) == f = 1

\* get_fd_user: each fd has its own user object, named by the fd's number
get_fd_user(f) == f

\* ---------------------------------------------------------------- struct async
NoAsync ==
    [ st |-> "free", refs |-> 0, thread |-> 0, queue |-> 0, fd |-> 0,
      timeout |-> FALSE, timeout_status |-> STATUS_SUCCESS, event |-> FALSE,
      user |-> 0, iosb_cookie |-> 0, apc |-> FALSE, apc_context |-> FALSE,
      has_iosb |-> FALSE, iosb_refs |-> 0, status |-> STATUS_PENDING, result |-> 0, out_data |-> FALSE,
      wait_handle |-> FALSE, signaled |-> FALSE, pending |-> FALSE,
      direct_result |-> FALSE, alerted |-> FALSE, terminated |-> FALSE,
      unknown_status |-> FALSE, completion |-> FALSE, skip_on_success |-> FALSE,
      completion_callback |-> FALSE, held |-> FALSE, handed |-> FALSE,
      waiting |-> FALSE, wakes |-> 0 ]

\* memory of a destroyed async: nothing of it may be read again
Destroyed == [NoAsync EXCEPT !.st = "destroyed"]

\* a destroyed async whose iosb is still referenced: the iosb lives on with its
\* reference count, status, result and output buffer
Orphaned(A) ==
    [Destroyed EXCEPT !.iosb_refs = A.iosb_refs, !.status = A.status,
                      !.result = A.result, !.out_data = A.out_data]

\* what a use of the memory of a destroyed object does in the running build:
\* the server aborts (checked allocator, unmapped or poisoned memory), or the
\* use goes unnoticed and the server carries on
UBOutcomes == {"abort", "unnoticed"}

\* the world the functions of async.c read and write, with an empty effect
\* log; ub is the outcome the build gives to a use of destroyed memory
WorldOn(o) ==
    [ asyncs |-> asyncs, queues |-> queues, queue_live |-> queue_live,
      fd_completion |-> fd_completion, process_asyncs |-> process_asyncs,
      apcs |-> apcs, thread_alive |-> thread_alive, crashed |-> crashed,
      ub |-> o, log |-> <<>> ]

World == WorldOn("abort")

Commit(w) ==
    /\ asyncs' = w.asyncs
    /\ queues' = w.queues
    /\ queue_live' = w.queue_live
    /\ fd_completion' = w.fd_completion
    /\ process_asyncs' = w.process_asyncs
    /\ apcs' = w.apcs
    /\ thread_alive' = w.thread_alive
    /\ crashed' = w.crashed

\* ---------------------------------------------------------------- helpers
Emit(w, e) == [w EXCEPT !.log = Append(@, e)]

SetField(w, a, f, v) == [w EXCEPT !.asyncs[a][f] = v]

RemoveFrom(s, a) == SelectSeq(s, LAMBDA x : x # a)

Crash(w, why, a) == [Emit(w, <<why, a, "">>) EXCEPT !.crashed = TRUE]

\* a read or write of the memory of destroyed async a: undefined behaviour
touch_destroyed(w, a) ==
    IF w.ub = "abort" THEN Crash(w, "use_after_free", a)
    ELSE Emit(w, <<"use_after_free", a, "">>)

\* ---------------------------------------------------------------- object runtime
grab_object(w, a) == [w EXCEPT !.asyncs[a].refs = @ + 1]

\* async_reselect: asks the fd layer to re-evaluate the queue
async_reselect(w, a) ==
    IF w.asyncs[a].queue # 0 /\ w.asyncs[a].fd # 0
    THEN Emit(w, <<"fd_reselect_async", a, "">>)
    ELSE w

\* iosb_destroy: an output buffer the iosb still owns is freed
iosb_destroy(w, a) ==
    Emit(w, <<"iosb_destroy", a, IF w.asyncs[a].out_data THEN "out_data" ELSE "">>)

\* grab_object on the iosb of async a
grab_iosb(w, a) == [w EXCEPT !.asyncs[a].iosb_refs = @ + 1]

\* release_object on the iosb of async a; the iosb may have outlived the async
release_iosb(w, a) ==
    IF w.asyncs[a].iosb_refs = 1
    THEN LET w1 == iosb_destroy([w EXCEPT !.asyncs[a].iosb_refs = 0], a)
         IN  IF w1.asyncs[a].st = "destroyed"
             THEN [w1 EXCEPT !.asyncs[a] = Destroyed]
             ELSE w1
    ELSE [w EXCEPT !.asyncs[a].iosb_refs = @ - 1]

\* async_destroy: runs when the last reference is dropped
async_destroy(w, a) ==
    LET w0 == Emit(w, <<"async_destroy", a, "">>)
        w1 == [w0 EXCEPT !.process_asyncs = RemoveFrom(@, a)]
        q  == w.asyncs[a].queue
        w2 == IF q # 0
              THEN async_reselect([w1 EXCEPT !.queues[q] = RemoveFrom(@, a)], a)
              ELSE w1
        w3 == IF w2.asyncs[a].has_iosb THEN release_iosb(w2, a) ELSE w2
    IN  [w3 EXCEPT !.asyncs[a] = IF @.iosb_refs > 0 THEN Orphaned(@) ELSE Destroyed]

release_object(w, a) ==
    IF w.crashed THEN w
    ELSE IF w.asyncs[a].st # "live" THEN touch_destroyed(w, a)
    ELSE IF w.asyncs[a].refs = 1
         THEN async_destroy([w EXCEPT !.asyncs[a].refs = 0], a)
         ELSE [w EXCEPT !.asyncs[a].refs = @ - 1]

\* ---------------------------------------------------------------- waitable object
RECURSIVE async_set_result(_, _, _)

\* close_handle on the pre-allocated wait handle: the handle table drops its reference
close_wait_handle(w, a) ==
    IF w.asyncs[a].wait_handle
    THEN release_object(SetField(w, a, "wait_handle", FALSE), a)
    ELSE w

\* a waiter acquires the async
async_satisfied(w, a) ==
    LET w1 == IF w.asyncs[a].direct_result
              THEN LET r == async_set_result(w, a, w.asyncs[a].status)
                   IN  IF r.crashed THEN r ELSE SetField(r, a, "direct_result", FALSE)
              ELSE w
    IN  IF w1.crashed THEN w1
        ELSE close_wait_handle(
                 Emit(SetField(w1, a, "waiting", FALSE),
                      <<"set_wait_status", a, w1.asyncs[a].status>>), a)

\* wake_up: a thread blocked on the async's handle is satisfied at once
wake_up(w, a) ==
    LET w1 == Emit([w EXCEPT !.asyncs[a].wakes = @ + 1], <<"wake_up", a, "">>)
    IN  IF w1.asyncs[a].waiting THEN async_satisfied(w1, a) ELSE w1

\* ---------------------------------------------------------------- completion sinks
add_async_completion(w, a, status) ==
    LET A  == w.asyncs[a]
        w1 == IF A.fd # 0 /\ ~A.completion
              THEN SetField(w, a, "completion", w.fd_completion[A.fd])
              ELSE w
    IN  IF w1.asyncs[a].completion
        THEN Emit(w1, <<"add_completion", a, status>>)
        ELSE w1

\* the finalizing branch of async_set_result, one statement group per step
set_result_timeout(w, a) ==
    [w EXCEPT !.asyncs[a].timeout = FALSE, !.asyncs[a].terminated = TRUE]

set_result_iosb(w, a, status) ==
    IF w.asyncs[a].has_iosb
    THEN Emit(SetField(w, a, "status", status), <<"iosb_status", a, status>>)
    ELSE w

\* set_result_post that ignores pending and the skip-on-success flag
set_result_post_always(w, a, status) ==
    LET A == w.asyncs[a]
    IN  IF A.apc THEN Emit(w, <<"apc_user", a, "">>)
        ELSE IF A.apc_context
             THEN add_async_completion(w, a, status)
             ELSE w

set_result_post(w, a, status) ==
    LET A == w.asyncs[a]
    IN  IF A.apc THEN Emit(w, <<"apc_user", a, "">>)
        ELSE IF A.apc_context /\ (A.pending \/ ~A.skip_on_success)
             THEN add_async_completion(w, a, status)
             ELSE w

set_result_event(w, a) ==
    IF w.asyncs[a].event THEN Emit(w, <<"set_event", a, "">>)
    ELSE IF w.asyncs[a].fd # 0 THEN Emit(w, <<"set_fd_signaled", a, "">>)
    ELSE w

\* set_result_signal that wakes waiters even if the async is already signaled
set_result_signal_always(w, a) ==
    wake_up(SetField(w, a, "signaled", TRUE), a)

set_result_signal(w, a) ==
    IF ~w.asyncs[a].signaled
    THEN wake_up(SetField(w, a, "signaled", TRUE), a)
    ELSE w

\* set_result_callback that leaves the callback registered
set_result_callback_keep(w, a) ==
    IF w.asyncs[a].completion_callback
    THEN Emit(w, <<"completion_callback", a, "">>)
    ELSE w

set_result_callback(w, a) ==
    LET w1 == IF w.asyncs[a].completion_callback
              THEN Emit(w, <<"completion_callback", a, "">>)
              ELSE w
    IN  SetField(w1, a, "completion_callback", FALSE)

set_result_detach(w, a) ==
    LET q == w.asyncs[a].queue
    IN  IF q # 0
        THEN release_object(
                 Emit([w EXCEPT !.asyncs[a].fd = 0,
                                !.queues[q] = RemoveFrom(@, a),
                                !.asyncs[a].queue = 0],
                      <<"detach", a, "">>), a)
        ELSE w

\* async_finalize that sets the event or fd signal before posting the APC_USER
\* or completion record
async_finalize_event_first(w, a, status) ==
    set_result_detach(
      async_reselect(
        set_result_callback(
          set_result_signal(
            set_result_post(
              set_result_event(
                set_result_iosb(
                  set_result_timeout(w, a), a, status), a), a, status), a), a), a), a)

async_finalize(w, a, status) ==
    set_result_detach(
      async_reselect(
        set_result_callback(
          set_result_signal(
            set_result_event(
              set_result_post(
                set_result_iosb(
                  set_result_timeout(w, a), a, status), a, status), a), a), a), a), a)

async_restart(w, a) ==
    async_reselect(
        Emit([w EXCEPT !.asyncs[a].terminated = FALSE, !.asyncs[a].alerted = FALSE],
             <<"restart", a, "">>), a)

\* store the result of the client-side async callback
async_set_result(w, a, status) ==
    IF w.crashed THEN w
    ELSE IF w.asyncs[a].st # "live" THEN touch_destroyed(w, a)
    ELSE IF ~w.asyncs[a].terminated THEN Crash(w, "assert_terminated", a)
    ELSE IF w.asyncs[a].alerted /\ status = STATUS_PENDING
         THEN async_restart(w, a)
         ELSE async_finalize(Emit(w, <<"finalize", a, status>>), a, status)

\* thread_queue_apc for an APC_ASYNC_IO owned by the async: the APC object holds
\* a reference on its owner; if the thread cannot take it the APC is destroyed
\* at once, which reports the call's own status through async_set_result
thread_queue_apc(w, a, status) ==
    LET w1 == grab_object(w, a)
    IN  IF w.thread_alive[w.asyncs[a].thread]
        THEN Emit([w1 EXCEPT !.apcs = Append(@, [async |-> a, status |-> status])],
                  <<"APC_ASYNC_IO", a, status>>)
        ELSE release_object(
                 async_set_result(Emit(w1, <<"apc_not_queued", a, status>>), a, status), a)

\* apc_status that always passes the status argument on
apc_status_plain(A, status) == status

\* status carried by the APC_ASYNC_IO
apc_status(A, status) ==
    IF A.has_iosb /\ (A.result # 0 \/ A.out_data) THEN STATUS_ALERTED ELSE status

terminate_mark(w, a, status) ==
    LET A  == w.asyncs[a]
        w1 == SetField(w, a, "terminated", TRUE)
        w2 == IF A.has_iosb /\ A.status = STATUS_PENDING
              THEN SetField(w1, a, "status", status)
              ELSE w1
    IN  IF status = STATUS_ALERTED THEN SetField(w2, a, "alerted", TRUE) ELSE w2

\* async_terminate without the early return for a terminated async
async_terminate_again(w, a, status) ==
    IF w.crashed THEN w
    ELSE IF w.asyncs[a].st # "live" THEN touch_destroyed(w, a)
    ELSE LET w0 == Emit(w, <<"async_terminate", a, status>>)
             w1 == grab_object(terminate_mark(w0, a, status), a)
             w2 == IF ~w1.asyncs[a].direct_result
                   THEN thread_queue_apc(w1, a, apc_status(w1.asyncs[a], status))
                   ELSE w1
         IN  release_object(async_reselect(w2, a), a)

\* notifies client thread of new status of its async request
async_terminate(w, a, status) ==
    IF w.crashed THEN w
    ELSE IF w.asyncs[a].st # "live" THEN touch_destroyed(w, a)
    ELSE LET w0 == Emit(w, <<"async_terminate", a, status>>)
         IN  IF w0.asyncs[a].terminated THEN w0
             ELSE LET w1 == grab_object(terminate_mark(w0, a, status), a)
                      w2 == IF ~w1.asyncs[a].direct_result
                            THEN thread_queue_apc(w1, a, apc_status(w1.asyncs[a], status))
                            ELSE w1
                  IN  release_object(async_reselect(w2, a), a)

\* callback for timeout on an async request
async_timeout(w, a) ==
    async_terminate(SetField(w, a, "timeout", FALSE), a, w.asyncs[a].timeout_status)

\* ---------------------------------------------------------------- queues
RECURSIVE free_async_queue_loop(_, _)
\* LIST_FOR_EACH_ENTRY_SAFE over the entries the queue had on entry
free_async_queue_loop(w, todo) ==
    IF todo = <<>> \/ w.crashed THEN w
    ELSE LET a  == Head(todo)
             A  == w.asyncs[a]
         IN  IF A.st # "live"
             THEN free_async_queue_loop(touch_destroyed(w, a), Tail(todo))
             ELSE IF ~A.completion /\ A.fd = 0 THEN Crash(w, "null_fd", a)
             ELSE LET w1 == IF ~A.completion
                            THEN SetField(w, a, "completion", w.fd_completion[A.fd])
                            ELSE w
                      w2 == async_terminate(SetField(w1, a, "fd", 0), a, STATUS_HANDLES_CLOSED)
                      w3 == IF w2.crashed THEN w2
                            ELSE IF w2.asyncs[a].st # "live"
                            THEN release_object(touch_destroyed(w2, a), a)
                            ELSE release_object(SetField(w2, a, "queue", 0), a)
                  IN  free_async_queue_loop(w3, Tail(todo))

\* free an async queue, cancelling all async operations; the entries are
\* not unlinked from the list of the queue
free_async_queue(w, q) == free_async_queue_loop(w, w.queues[q])

\* the fd is destroyed: its owner frees the async queue and then the fd, and
\* the list of the queue goes with it
fd_destroy(w, q) ==
    LET w1 == free_async_queue(w, q)
    IN  IF w1.crashed THEN w1
        ELSE [w1 EXCEPT !.queues[q] = <<>>, !.queue_live[q] = FALSE]

\* queue_async that also clears the async's fd pointer
queue_async_clear_fd(w, q, a) ==
    Emit([w EXCEPT !.asyncs[a].queue = q,
                   !.asyncs[a].fd = 0,
                   !.asyncs[a].refs = @ + 1,
                   !.queues[q] = Append(@, a)],
         <<"set_fd_signaled_0", a, "">>)

queue_async(w, q, a) ==
    Emit([w EXCEPT !.asyncs[a].queue = q,
                   !.asyncs[a].refs = @ + 1,
                   !.queues[q] = Append(@, a)],
         <<"set_fd_signaled_0", a, "">>)

RECURSIVE async_wake_up_loop_all(_, _, _)
\* async_wake_up_loop that does not stop after the first entry for ALERTED
async_wake_up_loop_all(w, todo, status) ==
    IF todo = <<>> \/ w.crashed THEN w
    ELSE async_wake_up_loop_all(async_terminate(w, Head(todo), status), Tail(todo), status)

RECURSIVE async_wake_up_loop(_, _, _)
async_wake_up_loop(w, todo, status) ==
    IF todo = <<>> \/ w.crashed THEN w
    ELSE LET w1 == async_terminate(w, Head(todo), status)
         IN  IF status = STATUS_ALERTED THEN w1
             ELSE async_wake_up_loop(w1, Tail(todo), status)

\* wake up async operations on the queue
async_wake_up(w, q, status) == async_wake_up_loop(w, w.queues[q], status)

\* find the first pending async in queue; the caller holds the new reference
find_pending_async(w, q) ==
    LET idx == {i \in 1..Len(w.queues[q]) : ~w.asyncs[w.queues[q][i]].terminated}
        a   == w.queues[q][CHOOSE i \in idx : \A j \in idx : i <= j]
    IN  IF idx = {} THEN Emit(w, <<"return", 0, "async">>)
        ELSE Emit(SetField(grab_object(w, a), a, "held", TRUE), <<"return", a, "async">>)

\* ---------------------------------------------------------------- creation
FreeIds == {a \in Asyncs : asyncs[a].st = "free"}
NextId == CHOOSE a \in FreeIds : \A b \in FreeIds : a <= b

\* create_async that appends the async to the tail of the process list
create_async_tail(w, a, fd, thread, data, iosb) ==
    LET A  == [NoAsync EXCEPT
                 !.st = "live", !.refs = 1, !.held = TRUE,
                 !.thread = thread, !.event = data.event,
                 !.user = data.user, !.iosb_cookie = data.iosb, !.apc = data.apc,
                 !.apc_context = data.apc_context,
                 !.fd = fd, !.pending = TRUE,
                 !.completion = w.fd_completion[fd],
                 !.has_iosb = iosb, !.iosb_refs = IF iosb THEN 2 ELSE 0]
        w1 == [w EXCEPT !.asyncs[a] = A, !.process_asyncs = Append(@, a)]
        w2 == IF data.event THEN Emit(w1, <<"reset_event", a, "">>) ELSE w1
    IN  IF A.completion /\ data.apc
        THEN Emit(release_object(w2, a), <<"set_error", 0, "INVALID_PARAMETER">>)
        ELSE w2

\* create an async on a given queue of a fd; the result is the world with the
\* new async at NextId, or with that async destroyed when creation is refused.
\* An iosb comes with the reference create_iosb returned and is grabbed once
create_async(w, a, fd, thread, data, iosb) ==
    LET A  == [NoAsync EXCEPT
                 !.st = "live", !.refs = 1, !.held = TRUE,
                 !.thread = thread, !.event = data.event,
                 !.user = data.user, !.iosb_cookie = data.iosb, !.apc = data.apc,
                 !.apc_context = data.apc_context,
                 !.fd = fd, !.pending = TRUE,
                 !.completion = w.fd_completion[fd],
                 !.has_iosb = iosb, !.iosb_refs = IF iosb THEN 2 ELSE 0]
        w1 == [w EXCEPT !.asyncs[a] = A, !.process_asyncs = <<a>> \o @]
        w2 == IF data.event THEN Emit(w1, <<"reset_event", a, "">>) ELSE w1
    IN  IF A.completion /\ data.apc
        THEN Emit(release_object(w2, a), <<"set_error", 0, "INVALID_PARAMETER">>)
        ELSE w2

\* create an async associated with iosb for async-based requests
create_request_async(w, a, fd, thread, comp_flags, data) ==
    LET w1 == release_iosb(create_async(w, a, fd, thread, data, TRUE), a)
    IN  IF w1.asyncs[a].st # "live" THEN w1
        ELSE [w1 EXCEPT
                        !.asyncs[a].wait_handle = TRUE,
                        !.asyncs[a].refs = @ + 1,
                        !.asyncs[a].pending = FALSE,
                        !.asyncs[a].direct_result = TRUE,
                        !.asyncs[a].skip_on_success = comp_flags]

\* ---------------------------------------------------------------- mutators
set_async_pending(w, a, signal) ==
    IF ~w.asyncs[a].terminated
    THEN LET w1 == [w EXCEPT !.asyncs[a].pending = TRUE, !.asyncs[a].unknown_status = FALSE]
         IN  IF signal /\ ~w1.asyncs[a].signaled
             THEN wake_up(SetField(w1, a, "signaled", TRUE), a)
             ELSE w1
    ELSE w

\* async_set_unknown_status that leaves direct_result set
async_set_unknown_status_keep(w, a) ==
    [w EXCEPT !.asyncs[a].unknown_status = TRUE]

async_set_unknown_status(w, a) ==
    [w EXCEPT !.asyncs[a].unknown_status = TRUE, !.asyncs[a].direct_result = FALSE]

\* finite = FALSE is TIMEOUT_INFINITE
async_set_timeout(w, a, finite, status) ==
    [w EXCEPT !.asyncs[a].timeout = finite, !.asyncs[a].timeout_status = status]

async_set_completion_callback(w, a) == SetField(w, a, "completion_callback", TRUE)

\* async_request_complete without the test for an iosb that is no longer PENDING
async_request_complete_force(w, a, status, result, out_data) ==
    async_terminate(
        release_iosb([grab_iosb(w, a) EXCEPT !.asyncs[a].status = status,
                                             !.asyncs[a].result = result,
                                             !.asyncs[a].out_data = out_data], a),
        a, status)

\* complete a request-based async with a pre-allocated buffer
async_request_complete(w, a, status, result, out_data) ==
    IF w.asyncs[a].status # STATUS_PENDING
    THEN Emit(release_iosb(grab_iosb(w, a), a), <<"free_out_data", a, "">>)
    ELSE async_terminate(
             release_iosb([grab_iosb(w, a) EXCEPT !.asyncs[a].status = status,
                                                  !.asyncs[a].result = result,
                                                  !.asyncs[a].out_data = out_data], a),
             a, status)

\* async_get_iosb: a new reference on the iosb of the async, null without one
async_get_iosb(w, a) ==
    IF w.asyncs[a].has_iosb
    THEN Emit(grab_iosb(w, a), <<"return", a, "iosb">>)
    ELSE Emit(w, <<"return", 0, "iosb">>)

\* handoff_return that always returns wait handle 0
handoff_return_zero(w, a, err) ==
    Emit(Emit(w, <<"set_error", 0, err>>), <<"return", 0, "wait_handle">>)

\* return async object status and wait handle to client
handoff_return(w, a, err) ==
    Emit(Emit(w, <<"set_error", 0, err>>),
         <<"return", IF w.asyncs[a].wait_handle THEN 1 ELSE 0, "wait_handle">>)

\* async_handoff that does not set signaled when the result is available
async_handoff_no_signal(w, a, err, force_blocking) ==
    LET A == w.asyncs[a]
    IN  IF A.unknown_status THEN handoff_return(w, a, STATUS_PENDING)
        ELSE IF ~A.pending /\ NT_ERROR(err)
        THEN Emit(close_wait_handle(w, a), <<"return", 0, "wait_handle">>)
        ELSE
          LET w1 == IF err # STATUS_PENDING THEN async_terminate(w, a, err)
                    ELSE IF A.status # STATUS_PENDING /\ A.out_data
                    THEN Emit(SetField(w, a, "out_data", FALSE), <<"set_reply_data_ptr", a, "">>)
                    ELSE w
              w2 == IF w1.asyncs[a].status # STATUS_PENDING
                    THEN Emit(w1, <<"result", w1.asyncs[a].result, "">>)
                    ELSE LET w3 == [w1 EXCEPT !.asyncs[a].direct_result = FALSE,
                                              !.asyncs[a].pending = TRUE]
                         IN  IF ~force_blocking /\ w3.asyncs[a].fd # 0
                                /\ is_fd_overlapped(w3.asyncs[a].fd)
                             THEN close_wait_handle(w3, a)
                             ELSE w3
          IN  IF w1.crashed THEN w1 ELSE handoff_return(w2, a, w2.asyncs[a].status)

async_handoff(w, a, err, force_blocking) ==
    LET A == w.asyncs[a]
    IN  IF A.unknown_status THEN handoff_return(w, a, STATUS_PENDING)
        ELSE IF ~A.pending /\ NT_ERROR(err)
        THEN Emit(close_wait_handle(w, a), <<"return", 0, "wait_handle">>)
        ELSE
          LET w1 == IF err # STATUS_PENDING THEN async_terminate(w, a, err)
                    ELSE IF A.status # STATUS_PENDING /\ A.out_data
                    THEN Emit(SetField(w, a, "out_data", FALSE), <<"set_reply_data_ptr", a, "">>)
                    ELSE w
              w2 == IF w1.asyncs[a].status # STATUS_PENDING
                    THEN Emit(SetField(w1, a, "signaled", TRUE),
                              <<"result", w1.asyncs[a].result, "">>)
                    ELSE LET w3 == [w1 EXCEPT !.asyncs[a].direct_result = FALSE,
                                              !.asyncs[a].pending = TRUE]
                         IN  IF ~force_blocking /\ w3.asyncs[a].fd # 0
                                /\ is_fd_overlapped(w3.asyncs[a].fd)
                             THEN close_wait_handle(w3, a)
                             ELSE w3
          IN  IF w1.crashed THEN w1 ELSE handoff_return(w2, a, w2.asyncs[a].status)

\* ---------------------------------------------------------------- cancellation
\* fd_cancel_async: the fd's cancel_async operation terminates the async
fd_cancel_async(w, a) ==
    IF w.asyncs[a].fd = 0 THEN Crash(w, "null_fd", a)
    ELSE async_terminate(w, a, STATUS_CANCELLED)

RECURSIVE cancel_scan(_, _, _, _, _, _)
\* one walk of process->asyncs from `rest`; a match cancels and restarts the walk
cancel_scan(w, rest, obj, thread, iosb, woken) ==
    IF w.crashed THEN w
    ELSE IF rest = <<>> THEN Emit(w, <<"return", woken, "woken">>)
    ELSE LET a == Head(rest)
             A == w.asyncs[a]
         IN  IF A.terminated THEN cancel_scan(w, Tail(rest), obj, thread, iosb, woken)
             ELSE IF obj # 0 /\ A.fd = 0 THEN Crash(w, "null_fd", a)
             ELSE IF /\ (obj = 0 \/ get_fd_user(A.fd) = obj)
                     /\ (thread = 0 \/ A.thread = thread)
                     /\ (iosb = 0 \/ A.iosb_cookie = iosb)
                  THEN LET w1 == fd_cancel_async(w, a)
                       IN  cancel_scan(w1, w1.process_asyncs, obj, thread, iosb, woken + 1)
                  ELSE cancel_scan(w, Tail(rest), obj, thread, iosb, woken)

cancel_async(w, obj, thread, iosb) ==
    cancel_scan(w, w.process_asyncs, obj, thread, iosb, 0)

\* ---------------------------------------------------------------- async results
\* size of the output buffer of an iosb: a buffer that is present is not empty
out_size(A) == IF A.out_data THEN 1 ELSE 0

\* get_async_result that leaves the buffer in the iosb after replying with it
get_async_result_keep(w, user_arg, reply_max) ==
    LET idx == {i \in 1..Len(w.process_asyncs) :
                  w.asyncs[w.process_asyncs[i]].user = user_arg}
        a   == w.process_asyncs[CHOOSE i \in idx : \A j \in idx : i <= j]
        A   == w.asyncs[a]
        size == IF out_size(A) < reply_max THEN out_size(A) ELSE reply_max
    IN  IF w.crashed THEN w
        ELSE IF idx = {} \/ ~A.has_iosb
        THEN Emit(w, <<"set_error", 0, "INVALID_PARAMETER">>)
        ELSE LET w1 == IF A.out_data /\ size # 0
                       THEN Emit(w, <<"set_reply_data_ptr", a, "">>)
                       ELSE w
             IN  Emit(Emit(w1, <<"reply_size", A.result, "">>), <<"set_error", 0, A.status>>)

\* get async result from associated iosb: the first async of the process list
\* with the given user cookie
get_async_result(w, user_arg, reply_max) ==
    LET idx == {i \in 1..Len(w.process_asyncs) :
                  w.asyncs[w.process_asyncs[i]].user = user_arg}
        a   == w.process_asyncs[CHOOSE i \in idx : \A j \in idx : i <= j]
        A   == w.asyncs[a]
        size == IF out_size(A) < reply_max THEN out_size(A) ELSE reply_max
    IN  IF w.crashed THEN w
        ELSE IF idx = {} \/ ~A.has_iosb
        THEN Emit(w, <<"set_error", 0, "INVALID_PARAMETER">>)
        ELSE LET w1 == IF A.out_data /\ size # 0
                       THEN Emit(SetField(w, a, "out_data", FALSE),
                                 <<"set_reply_data_ptr", a, "">>)
                       ELSE w
             IN  Emit(Emit(w1, <<"reply_size", A.result, "">>), <<"set_error", 0, A.status>>)

\* ---------------------------------------------------------------- inputs
\* async_data_t values clients send: user and iosb cookies, APC routine,
\* APC context (completion value), event handle
AsyncData(C) ==
    { [user |-> c, iosb |-> c, apc |-> p, apc_context |-> x, event |-> e] :
        c \in C, p \in BOOLEAN, x \in BOOLEAN, e \in BOOLEAN }

\* requests without completion sinks, told apart by their cookies
PlainData(C) ==
    { [user |-> c, iosb |-> c, apc |-> FALSE, apc_context |-> FALSE, event |-> FALSE] :
        c \in C }

\* statuses the fd layer terminates or wakes asyncs with
TerminateStatuses == {STATUS_SUCCESS, STATUS_ALERTED, STATUS_CANCELLED}
\* statuses a request handler leaves in the last error or completes a request with
HandlerStatuses == {STATUS_SUCCESS, STATUS_PENDING, STATUS_CANCELLED}
\* statuses a request handler leaves in the last error before async_handoff:
\* success, pending, an error, a warning
HandoffStatuses == HandlerStatuses \cup {STATUS_HANDLES_CLOSED}
\* statuses a client returns from an APC_ASYNC_IO
ReplyStatuses == {STATUS_SUCCESS, STATUS_PENDING}
TimeoutStatuses == {STATUS_TIMEOUT}
Results == {0, 1}

\* ---------------------------------------------------------------- state
Init ==
    /\ asyncs = [a \in Asyncs |-> NoAsync]
    /\ queues = [f \in Fds |-> <<>>]
    /\ queue_live = [f \in Fds |-> TRUE]
    /\ fd_completion = [f \in Fds |-> FALSE]
    /\ process_asyncs = <<>>
    /\ apcs = <<>>
    /\ thread_alive = [t \in Threads |-> TRUE]
    /\ crashed = FALSE

Live(a) == asyncs[a].st = "live"
LiveAsyncs == {a \in Asyncs : Live(a)}

\* a request handler is between creating an async and releasing it
InHandler == \E a \in Asyncs : Live(a) /\ asyncs[a].held

\* between requests: timers, poll events and other requests may run
Quiet == ~crashed /\ ~InHandler

\* the async is reachable by the code running now
Callable(a) == ~crashed /\ Live(a) /\ (asyncs[a].held \/ ~InHandler)

\* ---------------------------------------------------------------- request handlers
\* F, T, D: the fds, threads and async_data_t values requests come with;
\* n: how many asyncs may be alive at once
CreateAsync(F, T, D, n) ==
    /\ Quiet /\ FreeIds # {} /\ Cardinality(LiveAsyncs) < n
    /\ \E f \in F, t \in T, d \in D :
         /\ queue_live[f] /\ thread_alive[t]
         /\ Commit(create_async(World, NextId, f, t, d, FALSE))

CreateRequestAsync(F, T, D, n) ==
    /\ Quiet /\ FreeIds # {} /\ Cardinality(LiveAsyncs) < n
    /\ \E f \in F, t \in T, d \in D, skip \in BOOLEAN :
         /\ queue_live[f] /\ thread_alive[t]
         /\ skip => d.apc_context /\ ~d.apc
         /\ Commit(create_request_async(World, NextId, f, t, skip, d))

QueueAsync(a) ==
    /\ Callable(a) /\ asyncs[a].held /\ ~asyncs[a].handed
    /\ asyncs[a].queue = 0 /\ asyncs[a].fd # 0 /\ ~asyncs[a].terminated
    /\ queue_live[asyncs[a].fd]
    /\ Commit(queue_async(World, asyncs[a].fd, a))

AsyncSetTimeout(a) ==
    /\ Callable(a) /\ asyncs[a].held /\ ~asyncs[a].handed
    /\ \E finite \in BOOLEAN, s \in TimeoutStatuses :
         Commit(async_set_timeout(World, a, finite, s))

AsyncSetCompletionCallback(a) ==
    /\ Callable(a) /\ asyncs[a].held /\ ~asyncs[a].handed
    /\ ~asyncs[a].completion_callback
    /\ Commit(async_set_completion_callback(World, a))

AsyncSetUnknownStatus(a) ==
    /\ Callable(a) /\ asyncs[a].held /\ ~asyncs[a].handed
    /\ asyncs[a].has_iosb /\ ~asyncs[a].terminated /\ ~asyncs[a].unknown_status
    /\ Commit(async_set_unknown_status(World, a))

AsyncHandoff(a) ==
    /\ Callable(a) /\ asyncs[a].held /\ ~asyncs[a].handed /\ asyncs[a].has_iosb
    /\ \E err \in HandoffStatuses, fb \in BOOLEAN :
         Commit(async_handoff(SetField(World, a, "handed", TRUE), a, err, fb))

\* the handler drops the reference create_async returned
ReleaseAsync(a) ==
    /\ Callable(a) /\ asyncs[a].held
    /\ asyncs[a].has_iosb => asyncs[a].handed
    /\ Commit(release_object(SetField(World, a, "held", FALSE), a))

\* ---------------------------------------------------------------- fd layer and timers
SetAsyncPending(a) ==
    /\ Callable(a) /\ asyncs[a].has_iosb
    /\ \E signal \in BOOLEAN : Commit(set_async_pending(World, a, signal))

AsyncRequestComplete(a) ==
    /\ Callable(a) /\ asyncs[a].has_iosb
    /\ \E s \in HandlerStatuses \ {STATUS_PENDING}, r \in Results, o \in BOOLEAN :
         Commit(async_request_complete(World, a, s, r, o))

\* references on the iosb of a held outside the async
IosbHolders(a) ==
    asyncs[a].iosb_refs - (IF Live(a) /\ asyncs[a].has_iosb THEN 1 ELSE 0)

\* the fd layer takes a reference on the iosb of a request to work on it later
AsyncGetIosb(a) ==
    /\ Callable(a) /\ asyncs[a].has_iosb /\ IosbHolders(a) < MaxIosbHolders
    /\ Commit(async_get_iosb(World, a))

\* the holder of an iosb reference releases it, the async may be gone by then
ReleaseIosb(a) ==
    /\ Callable(a) \/ (Quiet /\ asyncs[a].st = "destroyed")
    /\ IosbHolders(a) > 0
    /\ Commit(release_iosb(World, a))

AsyncTerminate(a) ==
    /\ Callable(a)
    /\ \E s \in TerminateStatuses : Commit(async_terminate(World, a, s))

AsyncTimeout(a) ==
    /\ Quiet /\ Live(a) /\ asyncs[a].timeout
    /\ Commit(async_timeout(World, a))

AsyncWakeUp(q) ==
    /\ Quiet /\ queue_live[q] /\ queues[q] # <<>>
    /\ \E s \in TerminateStatuses : Commit(async_wake_up(World, q, s))

\* the fd is closed for good; a use of destroyed memory on the way has either
\* outcome (no other step uses destroyed memory)
FreeAsyncQueue(q) ==
    /\ Quiet /\ queue_live[q]
    /\ \E o \in UBOutcomes : Commit(fd_destroy(WorldOn(o), q))

\* the fd layer picks the first pending async of a queue to work on it, and
\* releases it when done (ReleaseAsync)
FindPendingAsync(q) ==
    /\ Quiet /\ queue_live[q]
    /\ \E i \in 1..Len(queues[q]) : ~asyncs[queues[q][i]].terminated
    /\ Commit(find_pending_async(World, q))

\* set_completion_info: binds a completion port to an overlapped fd that has none
BindCompletion(f) ==
    /\ Quiet /\ queue_live[f] /\ is_fd_overlapped(f) /\ ~fd_completion[f]
    /\ Commit([World EXCEPT !.fd_completion[f] = TRUE])

\* ---------------------------------------------------------------- clients
\* DECL_HANDLER(cancel_async): obj is the object of a handle the client holds
CancelAsync ==
    /\ Quiet
    /\ \E obj \in Fds, t \in {0} \cup Threads, c \in {0} \cup Cookies :
         /\ queue_live[obj]
         /\ t # 0 => thread_alive[t]
         /\ Commit(cancel_async(World, obj, t, c))

\* DECL_HANDLER(get_async_result): the client fetches the result of an async
\* by its user cookie, with room for reply_max bytes of data
GetAsyncResult ==
    /\ Quiet
    /\ \E u \in Cookies, m \in Results : Commit(get_async_result(World, u, m))

CancelProcessAsyncs ==
    /\ Quiet
    /\ Commit(cancel_async(World, 0, 0, 0))

\* the APC object is destroyed: it reports a status to its owner and drops
\* its reference
apc_destroy(w, i, status) ==
    LET a  == w.apcs[i].async
        w1 == [w EXCEPT !.apcs = SubSeq(@, 1, i - 1) \o SubSeq(@, i + 1, Len(@))]
    IN  release_object(async_set_result(w1, a, status), a)

\* the client thread returns the result of an APC_ASYNC_IO
ApcReply ==
    /\ Quiet
    /\ \E i \in 1..Len(apcs), s \in ReplyStatuses :
         /\ thread_alive[asyncs[apcs[i].async].thread]
         /\ Commit(apc_destroy(World, i, s))

RECURSIVE clear_apc_queue(_, _)
\* APCs still queued to a dying thread are destroyed unexecuted: each reports
\* the status of its own call
clear_apc_queue(w, t) ==
    LET idx == {i \in 1..Len(w.apcs) : w.asyncs[w.apcs[i].async].thread = t}
    IN  IF idx = {} \/ w.crashed THEN w
        ELSE LET i == CHOOSE i \in idx : \A j \in idx : i <= j
             IN  clear_apc_queue(apc_destroy(w, i, w.apcs[i].status), t)

KillThread(t) ==
    /\ Quiet /\ thread_alive[t]
    /\ Commit(clear_apc_queue([World EXCEPT !.thread_alive[t] = FALSE], t))

\* a client thread starts waiting on the wait handle
ClientWait(a) ==
    /\ Quiet /\ Live(a) /\ asyncs[a].wait_handle
    /\ ~asyncs[a].signaled /\ ~asyncs[a].waiting
    /\ Commit(SetField(World, a, "waiting", TRUE))

\* a client thread waits on the wait handle of a signaled async
AsyncSatisfied(a) ==
    /\ Quiet /\ Live(a) /\ asyncs[a].wait_handle /\ asyncs[a].signaled
    /\ Commit(async_satisfied(World, a))

\* ---------------------------------------------------------------- specifications
\* Spec: the whole life of asyncs of one thread, every operation, at most
\* MaxLive asyncs alive at once
Next ==
    \/ CreateAsync(Fds, {1}, PlainData({1}), MaxLive)
    \/ CreateRequestAsync(Fds, {1}, PlainData({1}), MaxLive)
    \/ CancelAsync
    \/ CancelProcessAsyncs
    \/ GetAsyncResult
    \/ ApcReply
    \/ \E a \in Asyncs :
         \/ QueueAsync(a)
         \/ AsyncSetTimeout(a)
         \/ AsyncSetCompletionCallback(a)
         \/ AsyncSetUnknownStatus(a)
         \/ AsyncHandoff(a)
         \/ ReleaseAsync(a)
         \/ SetAsyncPending(a)
         \/ AsyncRequestComplete(a)
         \/ AsyncTerminate(a)
         \/ AsyncTimeout(a)
         \/ ClientWait(a)
         \/ AsyncSatisfied(a)
    \/ \E q \in Fds :
         \/ AsyncWakeUp(q)
         \/ FindPendingAsync(q)
         \/ FreeAsyncQueue(q)
         \/ BindCompletion(q)
    \/ KillThread(1)

Spec == Init /\ [][Next]_vars

\* SpecSinks: asyncs with every combination of completion sinks (APC routine,
\* completion port, event, callback) from creation to finalization
NextSinks ==
    \/ CreateAsync(Fds, {1}, AsyncData({1}), MaxLive)
    \/ CreateRequestAsync(Fds, {1}, AsyncData({1}), MaxLive)
    \/ ApcReply
    \/ \E a \in Asyncs :
         \/ QueueAsync(a)
         \/ AsyncSetCompletionCallback(a)
         \/ AsyncHandoff(a)
         \/ ReleaseAsync(a)
         \/ AsyncTerminate(a)
         \/ AsyncSatisfied(a)
    \/ \E q \in Fds :
         \/ AsyncWakeUp(q)
         \/ FreeAsyncQueue(q)
         \/ BindCompletion(q)
    \/ KillThread(1)

SpecSinks == Init /\ [][NextSinks]_vars

\* SpecQueue: several requests without sinks queued on the fds at once, woken,
\* cancelled and torn down
NextQueue ==
    \/ CreateRequestAsync(Fds, Threads, PlainData(Cookies), MaxAsync)
    \/ CancelAsync
    \/ CancelProcessAsyncs
    \/ ApcReply
    \/ \E a \in Asyncs :
         \/ QueueAsync(a)
         \/ AsyncHandoff(a)
         \/ ReleaseAsync(a)
    \/ \E q \in Fds :
         \/ AsyncWakeUp(q)
         \/ FreeAsyncQueue(q)
    \/ \E t \in Threads : KillThread(t)

SpecQueue == Init /\ [][NextQueue]_vars

\* SpecIosb: requests and their iosbs, from creation to the release of the
\* last iosb reference, which a holder outside the async may own
NextIosb ==
    \/ CreateRequestAsync(Fds, {1}, PlainData({1}), MaxLive)
    \/ GetAsyncResult
    \/ ApcReply
    \/ \E a \in Asyncs :
         \/ QueueAsync(a)
         \/ AsyncHandoff(a)
         \/ ReleaseAsync(a)
         \/ AsyncRequestComplete(a)
         \/ AsyncGetIosb(a)
         \/ ReleaseIosb(a)
         \/ AsyncSatisfied(a)
         \/ AsyncTerminate(a)
         \/ AsyncSetUnknownStatus(a)
         \/ SetAsyncPending(a)
    \/ \E q \in Fds : FreeAsyncQueue(q)
    \/ KillThread(1)

SpecIosb == Init /\ [][NextIosb]_vars

\* ---------------------------------------------------------------- claims
AllStatuses ==
    {STATUS_SUCCESS, STATUS_PENDING, STATUS_ALERTED, STATUS_CANCELLED,
     STATUS_HANDLES_CLOSED, STATUS_TIMEOUT}

\* C1: async_terminate is idempotent.  In every reachable state, calling
\* async_terminate with any status on an async that is already terminated
\* returns the world unchanged: no field of the async (iosb status, alerted,
\* the other flags, reference count) changes, no APC_ASYNC_IO is queued and no
\* reselect is requested; the only log entry is the call itself.
C1_TerminateIdempotent ==
    \A a \in Asyncs :
      (~crashed /\ Live(a) /\ asyncs[a].terminated) =>
        \A s \in AllStatuses :
          async_terminate(World, a, s) = Emit(World, <<"async_terminate", a, s>>)

\* a first async_terminate(CANCELLED) has acted: the iosb holds its status and
\* its APC_ASYNC_IO is queued
C1_Witness ==
    \E a \in Asyncs :
      /\ ~crashed /\ Live(a) /\ asyncs[a].terminated /\ ~asyncs[a].alerted
      /\ asyncs[a].has_iosb /\ asyncs[a].status = STATUS_CANCELLED
      /\ \E i \in 1..Len(apcs) : apcs[i] = [async |-> a, status |-> STATUS_CANCELLED]

\* C2 as claimed: for every live async, fd is null if and only if queue is
\* non-null.
C2_FdNullIffQueued ==
    \A a \in Asyncs : Live(a) => ((asyncs[a].fd = 0) <=> (asyncs[a].queue # 0))

\* C2 amended: for every live async, a non-null queue implies a non-null fd
\* (queue_async drops the fd reference and keeps the pointer), equivalently a
\* null fd implies a null queue; an async on a queue's list has that queue and
\* the fd of that queue, and QueueAsync leaves queue # null and fd # null.
C2_QueuedKeepsFd ==
    /\ \A a \in Asyncs : Live(a) => (asyncs[a].queue # 0 => asyncs[a].fd # 0)
    /\ \A q \in Fds : \A i \in 1..Len(queues[q]) :
         LET a == queues[q][i]
         IN  Live(a) => asyncs[a].queue = q /\ asyncs[a].fd = q
    /\ \A a \in Asyncs :
         (Callable(a) /\ asyncs[a].held /\ asyncs[a].queue = 0 /\ asyncs[a].fd # 0) =>
           LET w == queue_async(World, asyncs[a].fd, a)
           IN  w.asyncs[a].queue # 0 /\ w.asyncs[a].fd # 0

\* queue_async has acted and the handler has returned: the async is on the
\* queue with its fd pointer set
C2_Witness ==
    \E a \in Asyncs :
      /\ Live(a) /\ ~asyncs[a].held /\ asyncs[a].queue # 0 /\ asyncs[a].fd # 0
      /\ queues[asyncs[a].queue] = <<a>>

\* C3: for every live async with an iosb, terminated implies that the iosb
\* status is not PENDING, unless the async is alerted.
C3_TerminatedNotPending ==
    \A a \in Asyncs :
      (Live(a) /\ asyncs[a].has_iosb /\ asyncs[a].terminated /\ ~asyncs[a].alerted)
        => asyncs[a].status # STATUS_PENDING

\* C4: every live async with a completion port has no client APC routine.
C4_CompletionExcludesApc ==
    \A a \in Asyncs : (Live(a) /\ asyncs[a].completion) => ~asyncs[a].apc

\* C5: the signaled flag is monotonic and waiters are woken at most once.  A
\* new async starts with signaled = 0 and no wake-up; no step takes signaled of
\* a live async from 1 back to 0; the wake-up count of a live async changes
\* only by one, in a step that takes signaled from 0 to 1; and in every state
\* a live async has been woken at most once and only if it is signaled.
C5_SignaledMonotonic ==
    /\ [](\A a \in Asyncs :
            Live(a) => /\ asyncs[a].wakes <= 1
                       /\ (asyncs[a].wakes = 1 => asyncs[a].signaled))
    /\ [][\A a \in Asyncs :
            /\ (asyncs[a].st = "free" /\ asyncs'[a].st = "live") =>
                  (~asyncs'[a].signaled /\ asyncs'[a].wakes = 0)
            /\ (asyncs[a].st = "live" /\ asyncs'[a].st = "live") =>
                  /\ asyncs[a].signaled => asyncs'[a].signaled
                  /\ asyncs'[a].wakes \in {asyncs[a].wakes, asyncs[a].wakes + 1}
                  /\ asyncs'[a].wakes = asyncs[a].wakes + 1 =>
                        (~asyncs[a].signaled /\ asyncs'[a].signaled)]_vars

\* an async was signaled with a wake-up and has since been finalized by
\* async_set_result: no APC_ASYNC_IO of it is in flight, it stays signaled and
\* has been woken once
C5_Witness ==
    \E a \in Asyncs :
      /\ ~crashed /\ Live(a) /\ asyncs[a].has_iosb /\ asyncs[a].handed
      /\ asyncs[a].signaled /\ asyncs[a].wakes = 1
      /\ asyncs[a].terminated /\ ~asyncs[a].alerted /\ ~asyncs[a].direct_result
      /\ asyncs[a].status = STATUS_SUCCESS
      /\ \A i \in 1..Len(apcs) : apcs[i].async # a

\* C6: restart is a left inverse of alerting.  For every queued,
\* non-terminated live async whose thread can take the APC_ASYNC_IO,
\* async_terminate(A, ALERTED) followed by async_set_result(A, PENDING) leaves
\* A non-terminated, non-alerted, on the same queue at the same position, with
\* the iosb status, result and out_data it had before.
C6_RestartLeftInverse ==
    \A a \in Asyncs :
      (/\ ~crashed /\ Live(a) /\ asyncs[a].queue # 0 /\ ~asyncs[a].terminated
       /\ ~asyncs[a].direct_result /\ thread_alive[asyncs[a].thread]) =>
        LET w1 == async_terminate(World, a, STATUS_ALERTED)
            w2 == async_set_result(w1, a, STATUS_PENDING)
        IN  /\ ~w2.crashed
            /\ ~w2.asyncs[a].terminated /\ ~w2.asyncs[a].alerted
            /\ w2.asyncs[a].queue = asyncs[a].queue
            /\ w2.queues = queues
            /\ w2.asyncs[a].status = asyncs[a].status
            /\ w2.asyncs[a].result = asyncs[a].result
            /\ w2.asyncs[a].out_data = asyncs[a].out_data

\* rank of an effect of the finalizing branch in the claimed order
C7_Rank(e) ==
    CASE e[1] = "iosb_status" -> 1
      [] e[1] \in {"apc_user", "add_completion"} -> 2
      [] e[1] \in {"set_event", "set_fd_signaled"} -> 3
      [] e[1] = "wake_up" -> 4
      [] e[1] = "completion_callback" -> 5
      [] e[1] = "detach" -> 6
      [] OTHER -> 0

\* within one finalizing call the ranked effects are strictly increasing
C7_Ordered(log) ==
    \A i, j \in 1..Len(log) :
      (/\ i < j /\ C7_Rank(log[i]) > 0 /\ C7_Rank(log[j]) > 0
       /\ log[i][2] = log[j][2]
       /\ \A k \in (i + 1)..j : log[k][1] # "finalize") =>
        C7_Rank(log[i]) < C7_Rank(log[j])

C7_Ranks(log) ==
    LET ranked == SelectSeq(log, LAMBDA e : C7_Rank(e) > 0)
    IN  [i \in 1..Len(ranked) |-> C7_Rank(ranked[i])]

\* C7: in every finalizing call of async_set_result the effects occur in the
\* order iosb status, APC_USER or completion record, event or fd signal,
\* signaled and wake-up, completion callback, queue detach, each at most once.
\* Checked for the call made from any reachable state with any status, and for
\* the call async_terminate makes itself when the thread cannot take the APC.
C7_FinalizeOrder ==
    \A a \in Asyncs : \A s \in AllStatuses :
      (~crashed /\ Live(a)) =>
        /\ (asyncs[a].terminated /\ ~(asyncs[a].alerted /\ s = STATUS_PENDING)) =>
              C7_Ordered(async_set_result(World, a, s).log)
        /\ C7_Ordered(async_terminate(World, a, s).log)

\* a terminated async with an iosb, a sink, a callback and a queue, whose
\* finalization performs all six effects
C7_Witness ==
    \E a \in Asyncs :
      /\ ~crashed /\ Live(a) /\ asyncs[a].terminated /\ ~asyncs[a].alerted
      /\ C7_Ranks(async_set_result(World, a, STATUS_SUCCESS).log) = <<1, 2, 3, 4, 5, 6>>

\* the asyncs async_terminate was called on, in call order
C8_Terminated(log) ==
    LET calls == SelectSeq(log, LAMBDA e : e[1] = "async_terminate")
    IN  [i \in 1..Len(calls) |-> <<calls[i][2], calls[i][3]>>]

\* C8: async_wake_up(queue, ALERTED) processes only the head of the queue:
\* async_terminate is called on the head alone, every other async is left
\* unchanged and the other entries keep their order, and nothing at all
\* changes when the head is already terminated.  async_wake_up(queue, s) with
\* s # ALERTED calls async_terminate(_, s) on every entry in queue order.
C8_WakeUpFrame ==
    \A q \in Fds :
      (Quiet /\ queue_live[q] /\ queues[q] # <<>>) =>
        LET h == Head(queues[q])
            w == async_wake_up(World, q, STATUS_ALERTED)
        IN  /\ ~w.crashed
            /\ C8_Terminated(w.log) = <<<<h, STATUS_ALERTED>>>>
            /\ \A b \in Asyncs \ {h} : w.asyncs[b] = asyncs[b]
            /\ RemoveFrom(w.queues[q], h) = Tail(queues[q])
            /\ \A f \in Fds \ {q} : w.queues[f] = queues[f]
            /\ asyncs[h].terminated =>
                  w = Emit(World, <<"async_terminate", h, STATUS_ALERTED>>)
            /\ \A s \in AllStatuses \ {STATUS_ALERTED} :
                  LET v == async_wake_up(World, q, s)
                  IN  /\ ~v.crashed
                      /\ C8_Terminated(v.log) =
                           [i \in 1..Len(queues[q]) |-> <<queues[q][i], s>>]

\* async_wake_up(queue, ALERTED) has acted on a queue of two: the head is
\* alerted with its APC_ASYNC_IO in flight, the second entry is untouched
C8_Witness ==
    \E q \in Fds :
      /\ ~crashed /\ Len(queues[q]) = 2
      /\ LET h == queues[q][1]
             b == queues[q][2]
         IN  /\ Live(h) /\ asyncs[h].terminated /\ asyncs[h].alerted
             /\ \E i \in 1..Len(apcs) : apcs[i] = [async |-> h, status |-> STATUS_ALERTED]
             /\ Live(b) /\ ~asyncs[b].terminated /\ ~asyncs[b].held
             /\ \A i \in 1..Len(apcs) : apcs[i].async # b

\* the asyncs of the process list that are not terminated and match every
\* non-null filter
C9_Matching(obj, thread, iosb) ==
    {a \in Asyncs :
       /\ \E i \in 1..Len(process_asyncs) : process_asyncs[i] = a
       /\ ~asyncs[a].terminated
       /\ obj = 0 \/ asyncs[a].fd = obj
       /\ thread = 0 \/ asyncs[a].thread = thread
       /\ iosb = 0 \/ asyncs[a].iosb_cookie = iosb}

C9_Woken(w) == w.log[Len(w.log)][2]

\* C9: between requests, cancel_async with any filters returns; it returns
\* the number of asyncs of the process list that were non-terminated and
\* matched all non-null filters; on return each of them is terminated (or
\* already finalized and destroyed), every other async is unchanged, and an
\* identical call made at once returns 0.
C9_CancelCounts ==
    \A obj \in {0} \cup Fds, thread \in {0} \cup Threads, iosb \in {0} \cup Cookies :
      Quiet =>
        LET M == C9_Matching(obj, thread, iosb)
            w == cancel_async(World, obj, thread, iosb)
            v == cancel_async([w EXCEPT !.log = <<>>], obj, thread, iosb)
        IN  /\ ~w.crashed
            /\ C9_Woken(w) = Cardinality(M)
            /\ \A a \in M : w.asyncs[a].st = "live" => w.asyncs[a].terminated
            /\ \A a \in Asyncs \ M : w.asyncs[a] = asyncs[a]
            /\ ~v.crashed /\ C9_Woken(v) = 0

\* C10 as claimed: two asyncs A then B created and queued on the same fd, in
\* that order, are terminated by cancel_async(fd user, null, 0) in FIFO order,
\* A before B.
C10_CancelFifo ==
    \A a, b \in Asyncs : \A q \in Fds :
      (/\ Quiet /\ a < b /\ queues[q] = <<a, b>>
       /\ ~asyncs[a].terminated /\ ~asyncs[b].terminated) =>
        C8_Terminated(cancel_async(World, q, 0, 0).log) =
          <<<<a, STATUS_CANCELLED>>, <<b, STATUS_CANCELLED>>>>

\* the APC_ASYNC_IO calls async_terminate(x, CANCELLED) queues, if any
C10_Apc(x) ==
    IF asyncs[x].direct_result \/ ~thread_alive[asyncs[x].thread] THEN <<>>
    ELSE <<[async |-> x, status |-> apc_status(asyncs[x], STATUS_CANCELLED)]>>

\* C10 amended: two asyncs A then B created and queued on the same fd are
\* both terminated with CANCELLED by cancel_async(fd user, null, 0), newest
\* first: the process list is scanned from its head and create_async inserts
\* at the head, so B's termination and its APC_ASYNC_IO come before A's.
C10_CancelNewestFirst ==
    \A a, b \in Asyncs : \A q \in Fds :
      (/\ Quiet /\ a < b /\ queues[q] = <<a, b>>
       /\ ~asyncs[a].terminated /\ ~asyncs[b].terminated) =>
        LET w == cancel_async(World, q, 0, 0)
        IN  /\ ~w.crashed
            /\ process_asyncs = <<b, a>>
            /\ C8_Terminated(w.log) =
                 <<<<b, STATUS_CANCELLED>>, <<a, STATUS_CANCELLED>>>>
            /\ \A x \in {a, b} : w.asyncs[x].st = "live" => w.asyncs[x].terminated
            /\ w.apcs = apcs \o C10_Apc(b) \o C10_Apc(a)

\* cancel_async has acted on two asyncs queued on the same fd: both are
\* terminated with CANCELLED and the newer one's APC_ASYNC_IO is first
C10_Witness ==
    \E a, b \in Asyncs : \E q \in Fds :
      /\ ~crashed /\ a < b /\ queues[q] = <<a, b>>
      /\ \A x \in {a, b} :
           /\ Live(x) /\ asyncs[x].terminated /\ ~asyncs[x].alerted
           /\ asyncs[x].status = STATUS_CANCELLED
      /\ apcs = <<[async |-> b, status |-> STATUS_CANCELLED],
                  [async |-> a, status |-> STATUS_CANCELLED]>>

\* number of APC_ASYNC_IO of async a in an APC queue
C11_ApcCount(q, a) == Cardinality({i \in 1..Len(q) : q[i].async = a})

\* C11: after free_async_queue(queue) returns, every async that was on the
\* queue is terminated with HANDLES_CLOSED (an iosb, if it has one, holds
\* HANDLES_CLOSED), has fd = null and queue = null, has lost the queue's
\* reference, and holds the fd's completion port if the fd had one.  The call
\* returns whatever a use of destroyed memory does in the build.
C11_FreeQueuePost ==
    \A q \in Fds : \A o \in UBOutcomes :
      (Quiet /\ queue_live[q]) =>
        LET w == free_async_queue(WorldOn(o), q)
        IN  /\ ~w.crashed
            /\ \A i \in 1..Len(queues[q]) :
                 LET a == queues[q][i]
                     A == w.asyncs[a]
                 IN  A.st = "live" =>
                       /\ A.terminated
                       /\ A.has_iosb => A.status = STATUS_HANDLES_CLOSED
                       /\ A.fd = 0 /\ A.queue = 0
                       /\ A.refs = asyncs[a].refs - 1
                                     + C11_ApcCount(w.apcs, a) - C11_ApcCount(apcs, a)
                       /\ fd_completion[q] => A.completion

\* a request async on an overlapped fd whose handler completed the iosb
\* with SUCCESS, a result and output data, before async_handoff
C12_SyncSuccess(a) ==
    /\ Callable(a) /\ asyncs[a].held /\ ~asyncs[a].handed /\ asyncs[a].has_iosb
    /\ asyncs[a].fd # 0 /\ is_fd_overlapped(asyncs[a].fd)
    /\ ~asyncs[a].unknown_status
    /\ asyncs[a].status = STATUS_SUCCESS /\ asyncs[a].result # 0 /\ asyncs[a].out_data

C12_Entry(w, k) == w.log[Len(w.log) - k]

\* C12 as claimed: async_handoff(async, &result, force_blocking = false) after
\* a synchronous success returns wait handle 0, writes iosb.result to *result,
\* leaves the async terminated and sets last-error to SUCCESS.
C12_SyncSuccessReturnsZero ==
    \A a \in Asyncs :
      C12_SyncSuccess(a) =>
        LET w == async_handoff(World, a, STATUS_SUCCESS, FALSE)
        IN  /\ C12_Entry(w, 0) = <<"return", 0, "wait_handle">>
            /\ C12_Entry(w, 1) = <<"set_error", 0, STATUS_SUCCESS>>
            /\ C12_Entry(w, 2) = <<"result", asyncs[a].result, "">>
            /\ w.asyncs[a].terminated

\* C12 amended: async_handoff(async, &result, force_blocking = false) after a
\* synchronous success returns the preallocated, non-zero wait handle (it is
\* closed only on the PENDING path), writes iosb.result to *result, sets
\* signaled, leaves the async terminated with direct_result as it was, and
\* sets last-error to SUCCESS.
C12_SyncSuccessKeepsHandle ==
    \A a \in Asyncs :
      C12_SyncSuccess(a) =>
        LET w == async_handoff(World, a, STATUS_SUCCESS, FALSE)
        IN  /\ C12_Entry(w, 0) = <<"return", 1, "wait_handle">>
            /\ C12_Entry(w, 1) = <<"set_error", 0, STATUS_SUCCESS>>
            /\ C12_Entry(w, 2) = <<"result", asyncs[a].result, "">>
            /\ w.asyncs[a].wait_handle
            /\ w.asyncs[a].terminated /\ w.asyncs[a].signaled
            /\ w.asyncs[a].direct_result = asyncs[a].direct_result
            /\ w.asyncs[a].status = STATUS_SUCCESS

\* async_handoff has acted after a synchronous success: the async is
\* terminated and signaled and still has its wait handle
C12_Witness ==
    \E a \in Asyncs :
      /\ ~crashed /\ Live(a) /\ asyncs[a].held /\ asyncs[a].handed
      /\ asyncs[a].fd # 0 /\ is_fd_overlapped(asyncs[a].fd)
      /\ asyncs[a].status = STATUS_SUCCESS /\ asyncs[a].result # 0 /\ asyncs[a].out_data
      /\ asyncs[a].terminated /\ asyncs[a].signaled /\ asyncs[a].direct_result
      /\ asyncs[a].wait_handle /\ apcs = <<>>

\* C13: when the timer of an async fires, whatever state the async is in, the
\* async is terminated, and a later async_set_result(async, PENDING) answering
\* an ALERTED APC_ASYNC_IO queued before does not make it non-terminated again.
C13_TimeoutFinal ==
    \A a \in Asyncs :
      (Quiet /\ Live(a) /\ asyncs[a].timeout) =>
        LET w1 == async_timeout(World, a)
        IN  /\ ~w1.crashed
            /\ w1.asyncs[a].st = "live" =>
                  /\ w1.asyncs[a].terminated
                  /\ \A i \in 1..Len(w1.apcs) :
                       (w1.apcs[i].async = a /\ w1.apcs[i].status = STATUS_ALERTED) =>
                         LET w2 == apc_destroy(w1, i, STATUS_PENDING)
                         IN  w2.asyncs[a].st = "live" => w2.asyncs[a].terminated

\* how many times the completion callback of async a is invoked in a log
C14_Calls(log, a) ==
    Cardinality({i \in 1..Len(log) : log[i] = <<"completion_callback", a, "">>})

\* every invocation of a's callback follows a "finalize" of a with nothing
\* but that finalization's effects in between
C14_OnlyInFinalize(log, a) ==
    \A i \in 1..Len(log) :
      log[i] = <<"completion_callback", a, "">> =>
        \E k \in 1..(i - 1) :
          /\ log[k][1] = "finalize" /\ log[k][2] = a
          /\ \A j \in (k + 1)..(i - 1) : C7_Rank(log[j]) \in 1..4 /\ log[j][2] = a

\* C14: a registered completion callback is invoked exactly once, by the
\* finalizing branch of async_set_result and by nothing else.  async_terminate
\* invokes it only through a finalization it triggers; the Alerted + PENDING
\* restart does not invoke it; a finalizing async_set_result invokes it once
\* if it is registered and not at all otherwise, and leaves it cleared, so
\* that a second finalization of the same async does not invoke it again.
C14_CallbackOnce ==
    \A a \in Asyncs : \A s \in AllStatuses :
      (~crashed /\ Live(a)) =>
        /\ LET w == async_terminate(World, a, s)
           IN  /\ C14_OnlyInFinalize(w.log, a)
               /\ C14_Calls(w.log, a) <= 1
               /\ C14_Calls(w.log, a) = 1 => asyncs[a].completion_callback
        /\ (asyncs[a].terminated /\ asyncs[a].alerted) =>
              C14_Calls(async_set_result(World, a, STATUS_PENDING).log, a) = 0
        /\ (asyncs[a].terminated /\ ~(asyncs[a].alerted /\ s = STATUS_PENDING)) =>
              LET w == async_set_result(World, a, s)
              IN  /\ C14_OnlyInFinalize(w.log, a)
                  /\ C14_Calls(w.log, a) = IF asyncs[a].completion_callback THEN 1 ELSE 0
                  /\ w.asyncs[a].st = "live" =>
                        /\ ~w.asyncs[a].completion_callback
                        /\ \A s2 \in AllStatuses :
                             C14_Calls(async_set_result([w EXCEPT !.log = <<>>], a, s2).log, a) = 0

\* a callback is registered, async_terminate has acted without invoking it
\* (the APC_ASYNC_IO is in flight), and the finalization invokes it once
C14_Witness ==
    \E a \in Asyncs :
      /\ ~crashed /\ Live(a) /\ ~asyncs[a].held
      /\ asyncs[a].completion_callback /\ asyncs[a].terminated /\ ~asyncs[a].alerted
      /\ \E i \in 1..Len(apcs) : apcs[i].async = a
      /\ LET w == async_set_result(World, a, STATUS_SUCCESS)
         IN  C14_Calls(w.log, a) = 1 /\ w.asyncs[a].st = "live"

\* C15: postcondition of async_handoff for a request async with
\* unknown_status = 0 that does not take the early error return.  Last-error
\* is the iosb status.  If that status is not PENDING: signaled = 1, *result
\* is iosb.result and the preallocated wait handle is returned.  If it is
\* PENDING: direct_result = 0, pending = 1, and the wait handle is closed
\* and 0 returned exactly when force_blocking is false and the fd is
\* overlapped; otherwise the preallocated wait handle is returned.
C15_HandoffPost ==
    \A a \in Asyncs : \A err \in AllStatuses, fb \in BOOLEAN :
      (/\ Callable(a) /\ asyncs[a].held /\ ~asyncs[a].handed /\ asyncs[a].has_iosb
       /\ ~asyncs[a].unknown_status
       /\ ~(~asyncs[a].pending /\ NT_ERROR(err))) =>
        LET w  == async_handoff(World, a, err, fb)
            A  == w.asyncs[a]
            n  == Len(w.log)
            closes == ~fb /\ A.fd # 0 /\ is_fd_overlapped(A.fd)
        IN  /\ ~w.crashed /\ A.st = "live"
            /\ asyncs[a].wait_handle
            /\ w.log[n - 1] = <<"set_error", 0, A.status>>
            /\ A.status # STATUS_PENDING =>
                  /\ A.signaled
                  /\ w.log[n - 2] = <<"result", A.result, "">>
                  /\ w.log[n] = <<"return", 1, "wait_handle">> /\ A.wait_handle
            /\ A.status = STATUS_PENDING =>
                  /\ ~A.direct_result /\ A.pending
                  /\ closes => w.log[n] = <<"return", 0, "wait_handle">> /\ ~A.wait_handle
                  /\ ~closes => w.log[n] = <<"return", 1, "wait_handle">> /\ A.wait_handle

\* async_handoff has acted with the iosb PENDING on an overlapped fd and
\* closed the wait handle
C15_Witness ==
    \E a \in Asyncs :
      /\ ~crashed /\ Live(a) /\ asyncs[a].held /\ asyncs[a].handed /\ asyncs[a].has_iosb
      /\ asyncs[a].status = STATUS_PENDING /\ ~asyncs[a].terminated
      /\ ~asyncs[a].direct_result /\ asyncs[a].pending /\ ~asyncs[a].signaled
      /\ asyncs[a].fd # 0 /\ is_fd_overlapped(asyncs[a].fd) /\ ~asyncs[a].wait_handle

\* the thread_queue_apc calls for an APC_ASYNC_IO in a log
C16_ApcCalls(log) ==
    SelectSeq(log, LAMBDA e : e[1] \in {"APC_ASYNC_IO", "apc_not_queued"})

\* the outcome async_terminate(a, s) must have on the APC queue and the
\* alerted flag, when the iosb holds result r and output data o
C16_Outcome(w, a, s, r, o) ==
    LET eff  == IF asyncs[a].has_iosb /\ (r # 0 \/ o) THEN STATUS_ALERTED ELSE s
        kind == IF thread_alive[asyncs[a].thread] THEN "APC_ASYNC_IO" ELSE "apc_not_queued"
    IN  /\ ~w.crashed
        /\ asyncs[a].direct_result =>
              C16_ApcCalls(w.log) = <<>> /\ w.apcs = apcs
        /\ ~asyncs[a].direct_result =>
              /\ C16_ApcCalls(w.log) = <<<<kind, a, eff>>>>
              /\ w.apcs = IF thread_alive[asyncs[a].thread]
                           THEN Append(apcs, [async |-> a, status |-> eff])
                           ELSE apcs
        /\ w.asyncs[a].st = "live" =>
              /\ w.asyncs[a].terminated
              /\ w.asyncs[a].alerted = (s = STATUS_ALERTED)

\* C16: when async_terminate(A, status) terminates a non-terminated async, no
\* APC is queued if direct_result = 1; otherwise exactly one APC_ASYNC_IO of
\* A is handed to thread_queue_apc for the owning thread, with status ALERTED
\* if A has an iosb with non-zero result or output data and with the status
\* argument otherwise.  alerted is set exactly when the status argument is
\* ALERTED.  Checked for direct calls and for the call async_request_complete
\* makes after installing a result.
C16_TerminateApc ==
    \A a \in Asyncs : \A s \in AllStatuses :
      (~crashed /\ Live(a) /\ ~asyncs[a].terminated) =>
        /\ C16_Outcome(async_terminate(World, a, s), a, s,
                       asyncs[a].result, asyncs[a].out_data)
        /\ (asyncs[a].has_iosb /\ asyncs[a].status = STATUS_PENDING) =>
              \A r \in Results, o \in BOOLEAN :
                C16_Outcome(async_request_complete(World, a, s, r, o), a, s, r, o)

\* async_terminate has acted with a status other than ALERTED on an async
\* whose iosb has a result: the APC_ASYNC_IO in flight carries ALERTED and the
\* alerted flag is not set
C16_Witness ==
    \E a \in Asyncs :
      /\ ~crashed /\ Live(a) /\ asyncs[a].has_iosb /\ asyncs[a].result # 0
      /\ asyncs[a].terminated /\ ~asyncs[a].alerted /\ ~asyncs[a].direct_result
      /\ asyncs[a].status = STATUS_SUCCESS
      /\ \E i \in 1..Len(apcs) : apcs[i] = [async |-> a, status |-> STATUS_ALERTED]

C17_Count(log, e) == Cardinality({i \in 1..Len(log) : log[i] = e})

\* the sinks a finalization of async a with status s must post to, given the
\* state of a when the finalization starts
C17_Sinks(log, a, s) ==
    LET A == asyncs[a]
        resolvable == A.completion \/ (A.fd # 0 /\ fd_completion[A.fd])
        posts == /\ ~A.apc /\ A.apc_context /\ resolvable
                 /\ (A.pending \/ ~A.skip_on_success)
    IN  /\ C17_Count(log, <<"apc_user", a, "">>) = IF A.apc THEN 1 ELSE 0
        /\ C17_Count(log, <<"add_completion", a, s>>) = IF posts THEN 1 ELSE 0
        /\ \A i \in 1..Len(log) :
             log[i][1] = "add_completion" => log[i] = <<"add_completion", a, s>>

\* C17: in each finalizing async_set_result the APC and the completion port
\* are mutually exclusive sinks.  An APC_USER is queued if and only if
\* data.apc is set; a completion record with the call's status is posted if
\* and only if data.apc is unset, data.apc_context is set, a completion port
\* is resolvable (held by the async, or by its fd) and pending = 1 or the
\* skip-on-success flag is unset.  Checked for the call made from any
\* reachable state with any status and for the finalization async_terminate
\* triggers itself when the thread cannot take the APC_ASYNC_IO.
C17_SinksExclusive ==
    \A a \in Asyncs : \A s \in AllStatuses :
      (~crashed /\ Live(a)) =>
        /\ (asyncs[a].terminated /\ ~(asyncs[a].alerted /\ s = STATUS_PENDING)) =>
              C17_Sinks(async_set_result(World, a, s).log, a, s)
        /\ (~asyncs[a].terminated /\ ~asyncs[a].direct_result
             /\ ~thread_alive[asyncs[a].thread]) =>
              C17_Sinks(async_terminate(World, a, s).log, a,
                        IF asyncs[a].has_iosb /\ (asyncs[a].result # 0 \/ asyncs[a].out_data)
                        THEN STATUS_ALERTED ELSE s)

\* a request async completed synchronously (pending = 0) with an APC context
\* on a skip-on-success fd that has a completion port, about to be finalized
\* by its waiter: the finalization posts nothing
C17_Witness ==
    \E a \in Asyncs :
      /\ ~crashed /\ Live(a) /\ ~asyncs[a].held /\ asyncs[a].terminated
      /\ asyncs[a].direct_result /\ asyncs[a].signaled /\ asyncs[a].wait_handle
      /\ ~asyncs[a].apc /\ asyncs[a].apc_context /\ asyncs[a].completion
      /\ asyncs[a].skip_on_success /\ ~asyncs[a].pending
      /\ LET log == async_set_result(World, a, asyncs[a].status).log
         IN  /\ C17_Count(log, <<"finalize", a, asyncs[a].status>>) = 1
             /\ \A i \in 1..Len(log) : log[i][1] \notin {"apc_user", "add_completion"}

\* C18: async_request_complete on an async whose iosb status is no longer
\* PENDING changes nothing (iosb status, result and output data, every flag
\* of the async, the APC queue) and does not call async_terminate, it only
\* frees the buffer it was given; when the iosb status is PENDING it installs
\* status, result and output data and then calls async_terminate(A, status),
\* which leaves A terminated.
C18_RequestComplete ==
    \A a \in Asyncs : \A s \in AllStatuses, r \in Results, o \in BOOLEAN :
      (~crashed /\ Live(a) /\ asyncs[a].has_iosb) =>
        LET w == async_request_complete(World, a, s, r, o)
            A == w.asyncs[a]
        IN  /\ asyncs[a].status # STATUS_PENDING =>
                  w = Emit(World, <<"free_out_data", a, "">>)
            /\ asyncs[a].status = STATUS_PENDING =>
                  /\ ~w.crashed
                  /\ w.log[1] = <<"async_terminate", a, s>>
                  /\ A.st = "live" =>
                        /\ A.terminated /\ A.result = r /\ A.out_data = o
                        /\ (asyncs[a].terminated \/ asyncs[a].direct_result
                             \/ thread_alive[asyncs[a].thread]) => A.status = s

\* an async restarted from Alerted, non-terminated with its iosb still
\* ALERTED: async_request_complete leaves it as it is
C18_Witness ==
    \E a \in Asyncs :
      /\ Quiet /\ Live(a) /\ asyncs[a].has_iosb
      /\ ~asyncs[a].terminated /\ ~asyncs[a].alerted
      /\ asyncs[a].status = STATUS_ALERTED /\ asyncs[a].queue # 0
      /\ asyncs[a].result = 0 /\ ~asyncs[a].out_data

\* C19: every async of the process list with terminated = 0 has a non-null
\* fd, so that cancel_async never hands a null fd to get_fd_user or
\* fd_cancel_async.
C19_ListedHasFd ==
    /\ \A i \in 1..Len(process_asyncs) :
         LET a == process_asyncs[i]
         IN  (Live(a) /\ ~asyncs[a].terminated) => asyncs[a].fd # 0
    /\ Quiet => \A obj \in {0} \cup Fds : ~cancel_async(World, obj, 0, 0).crashed

\* the assertion at the top of async_set_result fails somewhere in a call
C20_Asserts(w) == \E i \in 1..Len(w.log) : w.log[i][1] = "assert_terminated"

\* no entry into async_set_result, from any caller in any reachable state,
\* finds terminated = 0
C20_AssertHolds ==
    /\ \A a \in Asyncs :
         /\ (Quiet /\ Live(a) /\ asyncs[a].wait_handle /\ asyncs[a].signaled) =>
               ~C20_Asserts(async_satisfied(World, a))
         /\ (~crashed /\ Live(a)) =>
               /\ \A s \in AllStatuses : ~C20_Asserts(async_terminate(World, a, s))
               /\ ~C20_Asserts(set_async_pending(World, a, TRUE))
    /\ ~crashed =>
         /\ \A i \in 1..Len(apcs) : \A s \in AllStatuses :
              ~C20_Asserts(apc_destroy(World, i, s))
         /\ \A t \in Threads :
              ~C20_Asserts(clear_apc_queue([World EXCEPT !.thread_alive[t] = FALSE], t))

\* C20 as claimed: the assertion of async_set_result never fails, and in
\* every reachable state signaled = 1 and direct_result = 1 together imply
\* terminated = 1.
C20_SignaledDirectTerminated ==
    /\ C20_AssertHolds
    /\ \A a \in Asyncs :
         (Live(a) /\ asyncs[a].signaled /\ asyncs[a].direct_result) =>
           asyncs[a].terminated

\* C20 amended: the assertion of async_set_result never fails, and in every
\* reachable state in which a waiter can acquire the async (async_handoff has
\* returned and the async still has its wait handle) signaled = 1 and
\* direct_result = 1 together imply terminated = 1.
C20_WaitableDirectTerminated ==
    /\ C20_AssertHolds
    /\ \A a \in Asyncs :
         (/\ Live(a) /\ asyncs[a].handed /\ asyncs[a].wait_handle
          /\ asyncs[a].signaled /\ asyncs[a].direct_result) =>
           asyncs[a].terminated

\* after async_handoff, set_async_pending(signal) has signaled a
\* non-terminated async that still has its wait handle: direct_result is
\* clear, a waiter acquires it without entering async_set_result
C20_Witness ==
    \E a \in Asyncs :
      /\ Quiet /\ Live(a) /\ asyncs[a].handed /\ asyncs[a].wait_handle
      /\ asyncs[a].signaled /\ asyncs[a].wakes = 1
      /\ ~asyncs[a].terminated /\ ~asyncs[a].direct_result

\* a call touched an async that was already destroyed
C21_UseAfterFree(w) == \E i \in 1..Len(w.log) : w.log[i][1] = "use_after_free"

\* the holders of a reference on async a: the handler that created it, the fd
\* queue, the wait handle, each APC_ASYNC_IO in flight
C21_Holders(a) ==
    (IF asyncs[a].held THEN 1 ELSE 0) + (IF asyncs[a].queue # 0 THEN 1 ELSE 0)
    + (IF asyncs[a].wait_handle THEN 1 ELSE 0) + C11_ApcCount(apcs, a)

\* an async of queue q that free_async_queue destroyed had no holder left
\* but the queue: no wait handle and no APC_ASYNC_IO in flight
C21_NoHolderLeft(w, q) ==
    \A i \in 1..Len(queues[q]) :
      LET a == queues[q][i]
      IN  w.asyncs[a].st = "destroyed" =>
            ~asyncs[a].wait_handle /\ C11_ApcCount(w.apcs, a) = 0

\* C21: reference accounting is safe under synchronous re-entry.  The
\* reference count of every live async is at least the number of its holders,
\* an async is on a queue's list exactly while the queue holds its reference,
\* free_async_queue releases the queue's reference once (it never destroys an
\* async another holder still refers to), and neither free_async_queue nor
\* async_wake_up nor async_terminate touches an async after it has been
\* destroyed, also when thread_queue_apc cannot queue the APC and runs
\* async_set_result before it returns.  A use of destroyed memory counts
\* whether the build aborts on it or lets it pass.
C21_RefsSafe ==
    /\ \A a \in Asyncs : Live(a) => asyncs[a].refs >= C21_Holders(a)
    /\ \A q \in Fds : \A i \in 1..Len(queues[q]) :
         Live(queues[q][i]) /\ asyncs[queues[q][i]].queue = q
    /\ \A q \in Fds :
         (Quiet /\ queue_live[q]) =>
           /\ \A o \in UBOutcomes :
                /\ ~C21_UseAfterFree(free_async_queue(WorldOn(o), q))
                /\ C21_NoHolderLeft(free_async_queue(WorldOn(o), q), q)
           /\ \A s \in AllStatuses : ~C21_UseAfterFree(async_wake_up(World, q, s))
    /\ \A a \in Asyncs : \A s \in AllStatuses :
         (~crashed /\ Live(a)) => ~C21_UseAfterFree(async_terminate(World, a, s))

\* how many times the output buffer of async a is handed to a reply in a log
C22_Delivered(log, a) == C17_Count(log, <<"set_reply_data_ptr", a, "">>)

\* the async get_async_result picks for a user cookie, 0 if none
C22_Found(u) ==
    LET idx == {i \in 1..Len(process_asyncs) : asyncs[process_asyncs[i]].user = u}
    IN  IF idx = {} THEN 0
        ELSE process_asyncs[CHOOSE i \in idx : \A j \in idx : i <= j]

\* in world w, reached by an operation with log w.log, the buffer of a has
\* one owner: if it was handed to the reply the iosb field is null, no later
\* get_async_result hands it over again and iosb_destroy does not free it,
\* whether the iosb goes with the async or with a later holder
C22_OneOwner(w, a) ==
    /\ C22_Delivered(w.log, a) <= 1
    /\ C22_Delivered(w.log, a) = 1 =>
          /\ ~w.asyncs[a].out_data
          /\ \A m \in Results :
               C22_Delivered(
                   get_async_result([w EXCEPT !.log = <<>>], asyncs[a].user, m).log, a) = 0
          /\ C17_Count(async_destroy([w EXCEPT !.log = <<>>], a).log,
                       <<"iosb_destroy", a, "out_data">>) = 0
          /\ iosb_destroy([w EXCEPT !.log = <<>>], a).log = <<<<"iosb_destroy", a, "">>>>

\* C22: the output buffer of an iosb has one owner at all times.  Once
\* async_handoff or get_async_result hands it to the reply the iosb's
\* out_data is null, so it is not handed to a second reply and not freed by
\* iosb_destroy; get_async_result hands it over exactly when the iosb has a
\* buffer and the reply size is not 0, and with reply size 0 the buffer stays
\* with the iosb; a second get_async_result returns no data and reports the
\* same result and status.
C22_OutDataOneOwner ==
    /\ \A a \in Asyncs : \A err \in AllStatuses, fb \in BOOLEAN :
         (Callable(a) /\ asyncs[a].held /\ ~asyncs[a].handed /\ asyncs[a].has_iosb) =>
           C22_OneOwner(async_handoff(World, a, err, fb), a)
    /\ \A u \in Cookies : \A m \in Results :
         LET a == C22_Found(u)
             w == get_async_result(World, u, m)
         IN  (Quiet /\ a # 0 /\ asyncs[a].has_iosb) =>
               /\ C22_OneOwner(w, a)
               /\ C22_Delivered(w.log, a) = IF asyncs[a].out_data /\ m # 0 THEN 1 ELSE 0
               /\ m = 0 => w.asyncs[a].out_data = asyncs[a].out_data
               /\ \A b \in Asyncs \ {a} : w.asyncs[b] = asyncs[b]
               /\ \A m2 \in Results :
                    LET v == get_async_result([w EXCEPT !.log = <<>>], u, m2)
                    IN  /\ m # 0 => C22_Delivered(v.log, a) = 0
                        /\ v.log[Len(v.log) - 1] = w.log[Len(w.log) - 1]
                        /\ v.log[Len(v.log)] = w.log[Len(w.log)]
                        /\ v.log[Len(v.log)] = <<"set_error", 0, asyncs[a].status>>
                        /\ v.log[Len(v.log) - 1] = <<"reply_size", asyncs[a].result, "">>

\* an async completed with output data whose APC_ASYNC_IO tells the client to
\* fetch it: get_async_result hands the buffer to the reply and the iosb no
\* longer owns it
C22_Witness ==
    \E a \in Asyncs :
      /\ Quiet /\ Live(a) /\ asyncs[a].has_iosb /\ asyncs[a].out_data
      /\ asyncs[a].terminated
      /\ \E i \in 1..Len(apcs) : apcs[i] = [async |-> a, status |-> STATUS_ALERTED]
      /\ LET w == get_async_result(World, asyncs[a].user, 1)
         IN  C22_Delivered(w.log, a) = 1 /\ ~w.asyncs[a].out_data

====
